---- MODULE Spec2Model ----
(***************************************************************************)
(* Model of cgv.py: the CGV constructor (load, column check, row filter,   *)
(* timestamp parsing, sort, week segmentation, glucose conversion, figure  *)
(* folder), the plot_* methods and the PDF document builder.               *)
(*                                                                         *)
(* Dates are day numbers counted from a Monday (day 0), so that            *)
(* date.weekday() is the day number modulo 7.  A timestamp is a number of  *)
(* minutes, MinutesPerDay for each day.  A missing cell (NaN), NaT and     *)
(* None are modelled by the empty tuple or by a negative day number.       *)
(***************************************************************************)
EXTENDS Integers, Sequences, FiniteSets, TLC

\* ------------------------------------------------------------------ bounds

\* Dates of the measurement logs are the days 0..MaxDay.
MaxDay == 15
\* Logs with rows in any order and with missing cells have at most MaxRows
\* rows, on the days 0..MaxShuffleDay.
MaxRows == 3
MaxShuffleDay == 1
\* The segmentation loop is cut off after MaxIterations iterations (it is
\* unbounded when days_per_segment is not positive).
MaxIterations == 20
\* segmenting_time_period(days_per_segment) is called with 0..MaxSegmentLength.
MaxSegmentLength == 8

\* -------------------------------------------------------- program constants

\* segmenting_time_period(self, days_per_segment=7)
DefaultDaysPerSegment == 7
\* Week.last_day: timedelta(days=6)
LastDayOffset == 6
\* plot_since_three_month: timedelta(weeks=3 * 4)
ThreeMonthDays == 3 * 4 * 7
\* "%H:%M": the resolution of a parsed timestamp
MinutesPerDay == 24 * 60

\* The configured column names (date_column, glucose_column defaults).
DateColumn == "date"
GlucoseColumn == "glucose"

\* NaN cell of the csv, None result of plot_week.
NA == <<>>
None == <<>>
\* An attribute of self that was never assigned.
Unset == "unset"
\* dates.min() / dates.max() of an empty series, and NaT.date().
NaT == 0 - 1
\* to_numeric of a missing cell.
NaN == 0 - 1

\* ------------------------------------------------------------ cell values

Days == 0 .. MaxDay
\* Times of day of the measurements, in minutes after midnight.
MorningTime == 8 * 60
EveningTime == 20 * 60
TimesOfDay == {MorningTime, EveningTime}

\* "7,4" and "12,0": glucose cells as the csv holds them (decimal comma).
Glucose74 == <<"7", ",", "4">>
Glucose120 == <<"1", "2", ",", "0">>

\* A date cell "%m-%d-%Y %H:%M" is <<day, minute of day>>.
DateCell(day, minute) == <<day, minute>>

Row(d, g) == (DateColumn :> d) @@ (GlucoseColumn :> g)

\* Restriction of a row to the columns the csv has.
Project(row, cols) == [c \in cols |-> row[c]]

\* --------------------------------------------------------------- the logs

SeqsUpTo(S, n) == UNION {[1 .. k -> S] : k \in 0 .. n}

\* Rows of a log kept by hand: any order, cells may be missing.
ShuffleRows ==
    {Row(d, g) :
        d \in {DateCell(day, t) : day \in 0 .. MaxShuffleDay, t \in TimesOfDay} \cup {NA},
        g \in {Glucose74, NA}}

ShuffleLogs == SeqsUpTo(ShuffleRows, MaxRows)

\* One complete measurement on every day of d..b that is not in gap.
RECURSIVE DailyRows(_, _, _)
DailyRows(d, b, gap) ==
    IF d > b THEN <<>>
    ELSE (IF d \in gap THEN <<>> ELSE <<Row(DateCell(d, MorningTime), Glucose120)>>)
         \o DailyRows(d + 1, b, gap)

\* Logs of a sensor: daily from a to b, possibly interrupted from g to h.
SpanLogs ==
    {DailyRows(a, b, {}) : a \in Days, b \in Days}
    \cup {DailyRows(ab[1], ab[2], gh[1] .. gh[2]) :
            ab \in Days \X Days,
            gh \in {x \in Days \X Days : x[1] <= x[2]}}

\* The days of a raw log that hold a complete row.
CompleteDays(log) ==
    {log[i][DateColumn][1] :
        i \in {j \in DOMAIN log : log[j][DateColumn] # NA /\ log[j][GlucoseColumn] # NA}}

\* ---------------------------------------------------------- pure functions

\* Series.notna() on a cell
notna(cell) == cell # NA

\* pd.to_datetime(cell, format="%m-%d-%Y %H:%M"); NaN becomes NaT
to_datetime(cell) == IF cell = NA THEN NaT ELSE cell[1] * MinutesPerDay + cell[2]

\* Timestamp.date(); NaT.date() is NaT
DateOf(ts) == IF ts = NaT THEN NaT ELSE ts \div MinutesPerDay

\* date.weekday(): Monday is 0
weekday(day) == day % 7

\* Order of sort_values: ascending, NaT last (na_position="last").
KeyNotAfter(x, y) == y = NaT \/ (x # NaT /\ x <= y)

\* DataFrame.sort_values(by=col): ascending by the key.  Rows with equal
\* keys keep their order here; in the logs above they are equal rows.
RECURSIVE sort_values(_, _)
sort_values(rows, col) ==
    IF rows = <<>> THEN <<>>
    ELSE LET n == Len(rows)
             r == rows[n]
             head == sort_values(SubSeq(rows, 1, n - 1), col)
             NotAfter(x) == KeyNotAfter(x[col], r[col])
             After(x) == ~KeyNotAfter(x[col], r[col])
         IN  SelectSeq(head, NotAfter) \o <<r>> \o SelectSeq(head, After)

\* Series.min() / Series.max() of the date column; NaT when there is no row
RECURSIVE SeqMin(_)
SeqMin(s) ==
    IF Len(s) = 1 THEN s[1]
    ELSE LET m == SeqMin(Tail(s)) IN IF s[1] < m THEN s[1] ELSE m

RECURSIVE SeqMax(_)
SeqMax(s) ==
    IF Len(s) = 1 THEN s[1]
    ELSE LET m == SeqMax(Tail(s)) IN IF s[1] > m THEN s[1] ELSE m

Column(rows, col) == [i \in DOMAIN rows |-> rows[i][col]]

dates_min(rows, col) == IF rows = <<>> THEN NaT ELSE SeqMin(Column(rows, col))
dates_max(rows, col) == IF rows = <<>> THEN NaT ELSE SeqMax(Column(rows, col))

\* Week(first_day, week_number)
Week(first_day_, week_number_) == [first_day |-> first_day_, week_number |-> week_number_]

\* Week.last_day
last_day_of(w) == w.first_day + LastDayOffset

\* Week.inside_week
inside_week(w, day) == w.first_day <= day /\ day <= last_day_of(w)

\* Week.time_span: "first_day - last_day"
time_span(w) == <<w.first_day, last_day_of(w)>>

\* segmenting_time_period: first_day rolled back to its Monday
AlignedFirstDay(d) ==
    IF d = NaT THEN NaT
    ELSE IF weekday(d) > 0 THEN d - weekday(d) ELSE d

\* A loop that stops only on reaching last_day exactly.
LoopConditionNotEqual(fwd, last) == fwd # NaT /\ last # NaT /\ fwd # last

\* segmenting_time_period: while first_week_day < last_day (False on NaT)
LoopCondition(fwd, last) == fwd # NaT /\ last # NaT /\ fwd < last

\* A boundary advanced one day too far.
NextBoundaryOffByOne(fwd, dps) == fwd + dps + 1

\* segmenting_time_period: first_week_day + timedelta(days_per_segment)
NextBoundary(fwd, dps) == fwd + dps

\* str.replace(pat=",", repl=".")
str_replace(s) == [i \in DOMAIN s |-> IF s[i] = "," THEN "." ELSE s[i]]

Digits == <<"0", "1", "2", "3", "4", "5", "6", "7", "8", "9">>
DigitValue(c) == (CHOOSE i \in DOMAIN Digits : Digits[i] = c) - 1
IsDigit(c) == \E i \in DOMAIN Digits : Digits[i] = c

RECURSIVE DigitsValue(_)
DigitsValue(s) ==
    IF s = <<>> THEN 0
    ELSE DigitsValue(SubSeq(s, 1, Len(s) - 1)) * 10 + DigitValue(s[Len(s)])

\* pd.to_numeric accepts digits with at most one "." followed by one digit
\* (the numerals of the logs); the value is kept in tenths of mmol/L.
IsNumeral(s) ==
    /\ s # <<>>
    /\ \A i \in DOMAIN s : IsDigit(s[i]) \/ (s[i] = "." /\ i = Len(s) - 1 /\ i > 1)

to_numeric(s) ==
    IF s = NA THEN NaN
    ELSE IF Len(s) > 2 /\ s[Len(s) - 1] = "."
    THEN DigitsValue(SubSeq(s, 1, Len(s) - 2)) * 10 + DigitValue(s[Len(s)])
    ELSE DigitsValue(s) * 10

\* dtype read_csv gives the glucose column: strings make it object, a
\* column of NaN only is float64 (and has no .str accessor).
HasStrAccessor(log, col) ==
    log = <<>> \/ \E i \in DOMAIN log : log[i][col] # NA

\* plot_week: list(filter(lambda x: x.week_number == week, self.weeks))
LookupWeek(ws, k) ==
    LET Matches(x) == x.week_number = k IN SelectSeq(ws, Matches)

\* plot_week: the rows with first_day <= date <= last_day
week_data(rows, col, w) ==
    LET InWeek(r) == w.first_day <= DateOf(r[col]) /\ DateOf(r[col]) <= last_day_of(w)
    IN  SelectSeq(rows, InWeek)

\* plot_week without its check for an empty selection.
EmptyCheckDropped(selection) == FALSE

\* plot_week: if len(week_data) == 0
IsEmptySelection(selection) == Len(selection) = 0

\* plot_path: "./figures/Week{week_number}-{time_span}.pgf"
plot_path(w) == <<w.week_number>> \o time_span(w)

\* plot_week(week) for a week number: what it raises, returns and writes
PlotWeekOutcome(rows, col, ws, k) ==
    LET found == LookupWeek(ws, k) IN
    IF found = <<>>
    THEN [raises |-> "IndexError", returns |-> None, writes |-> {}]
    ELSE IF IsEmptySelection(week_data(rows, col, found[1]))
    THEN [raises |-> "none", returns |-> None, writes |-> {}]
    ELSE [raises |-> "none", returns |-> plot_path(found[1]),
          writes |-> {plot_path(found[1])}]

\* plot_week_range: range(first_week, last_week) has a next element
RangeHasNext(next, last) == next < last

\* plot_since_three_month: the week numbers of the weeks holding the date
StartingWeeks(ws, starting_date) ==
    {ws[i].week_number : i \in {j \in DOMAIN ws : inside_week(ws[j], starting_date)}}

\* PDF.__init__: Path(pgf) raises TypeError on None
PathRaises(pgf_list) == \E i \in DOMAIN pgf_list : pgf_list[i] = None

\* PDF.__init__: [Path(pgf) for pgf in pgf_paths if Path(pgf).exists()]
ExistingPaths(pgf_list, on_disk) ==
    LET Exists(p) == p \in on_disk IN SelectSeq(pgf_list, Exists)

\* PDF.document
RECURSIVE Blocks(_)
Blocks(ps) ==
    IF ps = <<>> THEN <<>>
    ELSE << <<"begin{center}">>, <<"input", ps[1]>>, <<"end{center}">>, <<"">> >>
         \o Blocks(Tail(ps))

Document(ps) == << <<"begin{document}">>, <<"">> >> \o Blocks(ps) \o << <<"end{document}">> >>

\* The paths a document embeds, in the order of its lines.
EmbeddedPaths(doc) ==
    LET IsInput(line) == line[1] = "input"
        inputs == SelectSeq(doc, IsInput)
    IN  [i \in DOMAIN inputs |-> inputs[i][2]]

\* ------------------------------------------------------------------ state

VARIABLES
    raw,              \* the rows read_csv loaded
    columns,          \* self.data.columns
    data,             \* self.data
    date_column,      \* self.date_column
    glucose_column,   \* self.glucose_column
    weeks,            \* self.weeks
    figures_dir,      \* ./figures/ exists
    files,            \* the .pgf files under ./figures/
    pc,               \* the statement that runs next
    err,              \* the exception raised by the statement at pc
    first_week_day,   \* segmenting_time_period: first_week_day
    last_day,         \* segmenting_time_period: last_day
    week,             \* segmenting_time_period: week
    seg_weeks,        \* segmenting_time_period: weeks
    days_per_segment, \* segmenting_time_period: days_per_segment
    caller,           \* who called segmenting_time_period
    op,               \* the plot method that was called
    rng_first,        \* plot_week_range: first_week
    rng_next,         \* plot_week_range: week, the next element of the range
    rng_last,         \* plot_week_range: last_week
    paths,            \* plot_week_range: paths
    result,           \* what the plot method returned
    pgf_paths,        \* PDF.pgf_paths
    document          \* the lines PDF.document() gave build_tex_file

ctor_vars == <<data, date_column, glucose_column, weeks, figures_dir>>
seg_vars == <<first_week_day, last_day, week, seg_weeks, days_per_segment, caller>>
plot_vars == <<op, rng_first, rng_next, rng_last, paths, result, files>>
pdf_vars == <<pgf_paths, document>>
vars == <<raw, columns, pc, err, ctor_vars, seg_vars, plot_vars, pdf_vars>>

AllColumns == {DateColumn, GlucoseColumn}

Projected(log, cols) == [i \in DOMAIN log |-> Project(log[i], cols)]

\* The state when CGV.__init__ has run read_csv.
InitWith(logs) ==
    /\ columns \in SUBSET AllColumns
    /\ raw \in IF columns = AllColumns THEN logs
               ELSE {Projected(log, columns) : log \in ShuffleLogs}
    /\ data = raw
    /\ date_column = Unset
    /\ glucose_column = Unset
    /\ weeks = <<>>
    /\ figures_dir = FALSE
    /\ files = {}
    /\ pc = "check_date"
    /\ err = "none"
    /\ first_week_day = NaT
    /\ last_day = NaT
    /\ week = 0
    /\ seg_weeks = <<>>
    /\ days_per_segment = DefaultDaysPerSegment
    /\ caller = "none"
    /\ op = "none"
    /\ rng_first = 0
    /\ rng_next = 0
    /\ rng_last = 0
    /\ paths = <<>>
    /\ result = None
    /\ pgf_paths = <<>>
    /\ document = <<>>

Init == InitWith(ShuffleLogs \cup SpanLogs)

Running(at) == pc = at /\ err = "none"

\* ------------------------------------------------------------ CGV.__init__

\* if date_column in self.data.columns: ... else: ValueError(...)
CheckDateColumn ==
    /\ Running("check_date")
    /\ date_column' = IF DateColumn \in columns THEN DateColumn ELSE date_column
    /\ pc' = "check_glucose"
    /\ UNCHANGED <<raw, columns, err, data, glucose_column, weeks, figures_dir,
                   seg_vars, plot_vars, pdf_vars>>

\* if glucose_column in self.data.columns: ... else: ValueError(...)
CheckGlucoseColumn ==
    /\ Running("check_glucose")
    /\ glucose_column' = IF GlucoseColumn \in columns THEN GlucoseColumn ELSE glucose_column
    /\ pc' = "filter"
    /\ UNCHANGED <<raw, columns, err, data, date_column, weeks, figures_dir,
                   seg_vars, plot_vars, pdf_vars>>

\* A filter joining its two masks with | instead of &.
KeepRowEither(r, dcol, gcol) == notna(r[dcol]) \/ notna(r[gcol])

\* The rows self.data[notna(date) & notna(glucose)] keeps.
KeepRow(r, dcol, gcol) == notna(r[dcol]) /\ notna(r[gcol])

\* self.data = self.data[self.data[self.date_column].notna() & ...]
FilterRows ==
    /\ Running("filter")
    /\ IF date_column = Unset \/ glucose_column = Unset
       THEN /\ err' = "AttributeError"
            /\ UNCHANGED <<pc, data>>
       ELSE /\ LET Keep(r) == KeepRow(r, date_column, glucose_column)
               IN  data' = SelectSeq(data, Keep)
            /\ pc' = "to_datetime"
            /\ UNCHANGED err
    /\ UNCHANGED <<raw, columns, date_column, glucose_column, weeks, figures_dir,
                   seg_vars, plot_vars, pdf_vars>>

\* self.data[self.date_column] = pd.to_datetime(...)
ToDatetime ==
    /\ Running("to_datetime")
    /\ data' = [i \in DOMAIN data |->
                  [data[i] EXCEPT ![date_column] = to_datetime(data[i][date_column])]]
    /\ pc' = "sort"
    /\ UNCHANGED <<raw, columns, err, date_column, glucose_column, weeks, figures_dir,
                   seg_vars, plot_vars, pdf_vars>>

\* self.data.sort_values(by=self.date_column, inplace=True)
SortValues ==
    /\ Running("sort")
    /\ data' = sort_values(data, date_column)
    /\ pc' = "segment"
    /\ UNCHANGED <<raw, columns, err, date_column, glucose_column, weeks, figures_dir,
                   seg_vars, plot_vars, pdf_vars>>

\* segmenting_time_period, up to the loop
EnterSegmenting(dps, who) ==
    /\ first_week_day' = AlignedFirstDay(DateOf(dates_min(data, date_column)))
    /\ last_day' = DateOf(dates_max(data, date_column))
    /\ seg_weeks' = <<>>
    /\ week' = 0
    /\ days_per_segment' = dps
    /\ caller' = who
    /\ pc' = "seg_loop"

\* self.weeks = self.segmenting_time_period()
SegmentStart ==
    /\ Running("segment")
    /\ EnterSegmenting(DefaultDaysPerSegment, "init")
    /\ UNCHANGED <<raw, columns, err, ctor_vars, plot_vars, pdf_vars>>

\* one iteration of while first_week_day < last_day
SegStep ==
    /\ Running("seg_loop")
    /\ LoopCondition(first_week_day, last_day)
    /\ week < MaxIterations
    /\ first_week_day' = NextBoundary(first_week_day, days_per_segment)
    /\ week' = week + 1
    /\ seg_weeks' = Append(seg_weeks, Week(first_week_day', week'))
    /\ UNCHANGED <<raw, columns, pc, err, ctor_vars, last_day, days_per_segment, caller,
                   plot_vars, pdf_vars>>

\* return weeks
SegReturn ==
    /\ Running("seg_loop")
    /\ ~LoopCondition(first_week_day, last_day)
    /\ IF caller = "init"
       THEN weeks' = seg_weeks /\ pc' = "convert"
       ELSE weeks' = weeks /\ pc' = "ready"
    /\ UNCHANGED <<raw, columns, err, data, date_column, glucose_column, figures_dir,
                   seg_vars, plot_vars, pdf_vars>>

\* convert_glucose_data on one cell
convert_glucose(cell) == to_numeric(str_replace(cell))

\* self.data[self.glucose_column] = self.convert_glucose_data()
ConvertGlucose ==
    /\ Running("convert")
    /\ IF ~HasStrAccessor(raw, glucose_column)
       THEN /\ err' = "AttributeError"
            /\ UNCHANGED <<pc, data>>
       ELSE IF \E i \in DOMAIN data :
                  /\ data[i][glucose_column] # NA
                  /\ ~IsNumeral(str_replace(data[i][glucose_column]))
       THEN /\ err' = "ValueError"
            /\ UNCHANGED <<pc, data>>
       ELSE /\ data' = [i \in DOMAIN data |->
                  [data[i] EXCEPT ![glucose_column] = convert_glucose(data[i][glucose_column])]]
            /\ pc' = "mkdir"
            /\ UNCHANGED err
    /\ UNCHANGED <<raw, columns, date_column, glucose_column, weeks, figures_dir,
                   seg_vars, plot_vars, pdf_vars>>

\* self._add_figure_folder()
AddFigureFolder ==
    /\ Running("mkdir")
    /\ figures_dir' = TRUE
    /\ pc' = "ready"
    /\ UNCHANGED <<raw, columns, err, data, date_column, glucose_column, weeks,
                   seg_vars, plot_vars, pdf_vars>>

\* ----------------------------------------------------------- plot methods

\* The days "today" is drawn from: three months after the days of the logs.
Todays == {ThreeMonthDays + d : d \in 0 .. MaxDay + 2 * DefaultDaysPerSegment}

\* plot_week(week) called with a week number
PlotWeek(k) ==
    /\ Running("ready")
    /\ op' = "plot_week"
    /\ LET out == PlotWeekOutcome(data, date_column, weeks, k) IN
        /\ err' = out.raises
        /\ result' = out.returns
        /\ files' = files \cup out.writes
        /\ pc' = IF out.raises = "none" THEN "plotted" ELSE pc
    /\ UNCHANGED <<raw, columns, ctor_vars, seg_vars, rng_first, rng_next, rng_last,
                   paths, pdf_vars>>

\* plot_last_week: max(self.weeks.keys()) on a list
PlotLastWeek ==
    /\ Running("ready")
    /\ op' = "plot_last_week"
    /\ err' = "AttributeError"
    /\ UNCHANGED <<raw, columns, pc, ctor_vars, seg_vars, rng_first, rng_next, rng_last,
                   paths, result, files, pdf_vars>>

\* plot_all_weeks: min(self.weeks.keys()) on a list
PlotAllWeeks ==
    /\ Running("ready")
    /\ op' = "plot_all_weeks"
    /\ err' = "AttributeError"
    /\ UNCHANGED <<raw, columns, pc, ctor_vars, seg_vars, rng_first, rng_next, rng_last,
                   paths, result, files, pdf_vars>>

\* plot_week_range, up to the loop
EnterRange(first_week, last_week) ==
    /\ rng_first' = first_week
    /\ rng_next' = first_week
    /\ rng_last' = last_week
    /\ paths' = <<>>
    /\ pc' = "range_loop"

\* plot_week_range(first_week, last_week) called by the user
PlotWeekRange(first_week, last_week) ==
    /\ Running("ready")
    /\ op' = "plot_week_range"
    /\ EnterRange(first_week, last_week)
    /\ UNCHANGED <<raw, columns, err, ctor_vars, seg_vars, result, files, pdf_vars>>

\* plot_since_three_month
PlotSinceThreeMonth(today) ==
    /\ Running("ready")
    /\ op' = "plot_since_three_month"
    /\ LET starting_date == today - ThreeMonthDays
           found == StartingWeeks(weeks, starting_date)
       IN  IF found = {}
           THEN /\ err' = "UnboundLocalError"
                /\ UNCHANGED <<pc, rng_first, rng_next, rng_last, paths>>
           ELSE /\ EnterRange(CHOOSE n \in found : \A m \in found : m <= n, Len(weeks))
                /\ UNCHANGED err
    /\ UNCHANGED <<raw, columns, ctor_vars, seg_vars, result, files, pdf_vars>>

\* one iteration of for week in range(first_week, last_week)
RangeStep ==
    /\ Running("range_loop")
    /\ RangeHasNext(rng_next, rng_last)
    /\ LET out == PlotWeekOutcome(data, date_column, weeks, rng_next) IN
        /\ err' = out.raises
        /\ files' = files \cup out.writes
        /\ IF out.raises = "none"
           THEN paths' = Append(paths, out.returns) /\ rng_next' = rng_next + 1
           ELSE UNCHANGED <<paths, rng_next>>
    /\ UNCHANGED <<raw, columns, pc, ctor_vars, seg_vars, op, rng_first, rng_last,
                   result, pdf_vars>>

\* return paths
RangeReturn ==
    /\ Running("range_loop")
    /\ ~RangeHasNext(rng_next, rng_last)
    /\ result' = paths
    /\ pc' = "rendered"
    /\ UNCHANGED <<raw, columns, err, ctor_vars, seg_vars, op, rng_first, rng_next,
                   rng_last, paths, files, pdf_vars>>

\* ---------------------------------------------------------------------- PDF

\* PDF(pgf_paths, file_name, name) on the list a plot method returned
PdfInit ==
    /\ Running("rendered")
    /\ IF PathRaises(result)
       THEN /\ err' = "TypeError"
            /\ UNCHANGED <<pc, pdf_vars>>
       ELSE /\ pgf_paths' = ExistingPaths(result, files)
            /\ document' = Document(pgf_paths')
            /\ pc' = "done"
            /\ UNCHANGED err
    /\ UNCHANGED <<raw, columns, ctor_vars, seg_vars, plot_vars>>

\* ------------------------------------------------------------ specifications

Construct ==
    \/ CheckDateColumn
    \/ CheckGlucoseColumn
    \/ FilterRows
    \/ ToDatetime
    \/ SortValues
    \/ SegmentStart
    \/ SegStep
    \/ SegReturn
    \/ ConvertGlucose
    \/ AddFigureFolder

Next ==
    \/ Construct
    \/ \E k \in 0 .. Len(weeks) + 1 : PlotWeek(k)
    \/ PlotLastWeek
    \/ PlotAllWeeks
    \/ \E f \in 0 .. Len(weeks) + 1 : \E l \in 0 .. Len(weeks) + 1 : PlotWeekRange(f, l)
    \/ \E today \in Todays : PlotSinceThreeMonth(today)
    \/ RangeStep
    \/ RangeReturn
    \/ PdfInit

\* One run: construct CGV, call one plot method, build the PDF.
Spec == Init /\ [][Next]_vars

\* segmenting_time_period(days_per_segment) called on a constructed CGV
CallSegmenting(dps) ==
    /\ Running("ready")
    /\ EnterSegmenting(dps, "user")
    /\ UNCHANGED <<raw, columns, err, ctor_vars, plot_vars, pdf_vars>>

SegmentLengths == 0 .. MaxSegmentLength

\* Daily logs from a to b: every date range of the days.
RangeLogs == {DailyRows(a, b, {}) : a \in Days, b \in Days}

InitSeg == InitWith(RangeLogs)

NextSeg ==
    \/ Construct
    \/ \E dps \in SegmentLengths : CallSegmenting(dps)

\* The interpreter runs the loop's next statement whenever there is one:
\* another iteration while the condition holds, the return once it fails.
SpecSeg == InitSeg /\ [][NextSeg]_vars /\ WF_vars(SegStep) /\ WF_vars(SegReturn)

\* ------------------------------------------------------------------ claims

\* CGV.__init__ has returned.
Constructed ==
    \/ pc \in {"ready", "range_loop", "rendered", "plotted", "done"}
    \/ pc = "seg_loop" /\ caller = "user"

\* The minimum and maximum date of the cleaned series, read off the raw log.
MinDate == CHOOSE d \in CompleteDays(raw) : \A e \in CompleteDays(raw) : d <= e
MaxDate == CHOOSE d \in CompleteDays(raw) : \A e \in CompleteDays(raw) : e <= d

\* The dates of the rows of self.data (once the timestamps are parsed).
DataDays == {DateOf(data[i][DateColumn]) : i \in DOMAIN data}

\* The week numbered k exists and no row of the series lies in its 7 days.
EmptyWeekNumber(k) ==
    \E j \in DOMAIN weeks :
        /\ weeks[j].week_number = k
        /\ \A d \in DataDays : d < weeks[j].first_day \/ d > weeks[j].first_day + 6

\* The week numbered k exists and some row of the series lies in its 7 days.
FilledWeekNumber(k) ==
    \E j \in DOMAIN weeks :
        /\ weeks[j].week_number = k
        /\ \E d \in DataDays : weeks[j].first_day <= d /\ d <= weeks[j].first_day + 6

\* C1: the first Week of self.weeks starts on a Monday, and that Monday is
\* the one on or before the minimum date of the series
\* (min_date - 6 <= weeks[0].first_day <= min_date).
C1_FirstWeekStartsOnMondayOfMinDate ==
    (Constructed /\ weeks # <<>>) =>
        /\ weeks[1].first_day % 7 = 0
        /\ MinDate - 6 <= weeks[1].first_day
        /\ weeks[1].first_day <= MinDate

\* C2: for every series with at least one row, self.weeks is not empty and
\* every date from the minimum to the maximum date lies in some Week.
C2_WeeksCoverDateRange ==
    (Constructed /\ CompleteDays(raw) # {}) =>
        /\ weeks # <<>>
        /\ \A d \in MinDate .. MaxDate :
              \E i \in DOMAIN weeks :
                  weeks[i].first_day <= d /\ d <= weeks[i].first_day + 6

\* C3: with the default segment length the Weeks of self.weeks are numbered
\* 1, 2, ... in order, and each Week starts the day after the last day of
\* the Week before it (no gap, no overlap, ascending).
C3_WeeksContiguous ==
    \A k \in DOMAIN weeks :
        /\ weeks[k].week_number = k
        /\ k < Len(weeks) =>
              /\ weeks[k].first_day + 6 + 1 = weeks[k + 1].first_day
              /\ weeks[k].first_day < weeks[k + 1].first_day

\* A run whose segmentation returned a list of three Weeks or more.
C3_Witness == pc = "ready" /\ Len(weeks) >= 3

\* C4: when the date column or the glucose column is absent from the csv,
\* construction ends at the column check with a ValueError: the row filter
\* and everything after it never run, no Week is produced and no figure
\* folder is created.
C4_FailsAtColumnCheck ==
    columns # AllColumns =>
        /\ pc \in {"check_date", "check_glucose"}
        /\ err \in {"none", "ValueError"}
        /\ weeks = <<>>
        /\ ~figures_dir

\* Scenario A: a measurement on every day of two Monday-to-Sunday weeks.
ScenarioA ==
    /\ columns = AllColumns
    /\ \E a \in Days : a % 7 = 0 /\ a + 13 \in Days /\ raw = DailyRows(a, a + 13, {})

\* Every Week of self.weeks was rendered, in order, by plot_week.
RenderedEachWeek ==
    /\ op = "plot_week_range"
    /\ rng_first = 1
    /\ rng_last = Len(weeks) + 1
    /\ pc \in {"rendered", "done"}

\* C5: in scenario A segmentation gives exactly 2 Weeks, rendering each of
\* them gives 2 paths (none absent), and the document embeds exactly those
\* 2 artifacts in ascending week order.
C5_ScenarioA ==
    (ScenarioA /\ RenderedEachWeek) =>
        /\ Len(weeks) = 2
        /\ Len(result) = 2
        /\ \A i \in DOMAIN result : result[i] # None
        /\ err = "none"
        /\ pc = "done" => EmbeddedPaths(document) = result

\* The entries of a list of results that are a path of a file on disk.
SurvivingPaths(res) ==
    LET Survives(p) == p # None /\ p \in files IN SelectSeq(res, Survives)

\* C6: PDF construction on a list of results with absent (None) entries does
\* not fail; the document embeds one block per surviving path, in the given
\* order.
C6_AbsentEntriesSkipped ==
    /\ (pc = "rendered" /\ \E i \in DOMAIN result : result[i] = None) => err = "none"
    /\ pc = "done" => EmbeddedPaths(document) = SurvivingPaths(result)

\* C7: plot_last_week, plot_all_weeks and plot_since_three_month raise
\* nothing, and the range plot_since_three_month renders runs from its
\* starting week through the highest-numbered Week inclusive.
C7_SelectionsEndAtLastWeek ==
    /\ op \in {"plot_last_week", "plot_all_weeks"} => err = "none"
    /\ (op = "plot_since_three_month" /\ Constructed /\ err = "none"
            /\ pc \in {"rendered", "done"}) =>
          Len(result) = Len(weeks) - rng_first + 1

\* A plot_week call for an empty Week returns None, writes no file, leaves
\* the series and the week list alone and raises nothing.
PlotWeekOnEmptyWeek ==
    \A k \in 0 .. Len(weeks) + 1 :
        (EmptyWeekNumber(k) /\ PlotWeek(k)) =>
            /\ result' = None
            /\ files' = files
            /\ data' = data
            /\ weeks' = weeks
            /\ err' = "none"

\* plot_week_range passes an empty Week: None is appended, nothing is
\* written or raised, and the loop is at the next week of the range.
RangeStepOnEmptyWeek ==
    (RangeStep /\ EmptyWeekNumber(rng_next)) =>
        /\ paths' = Append(paths, None)
        /\ files' = files
        /\ data' = data
        /\ weeks' = weeks
        /\ err' = "none"
        /\ pc' = "range_loop"
        /\ rng_next' = rng_next + 1

\* Every week of range(first_week, last_week) has its result: None for an
\* empty Week, the path of a written file for any other.
RangeRenderedThroughout ==
    (pc \in {"rendered", "done"}) =>
        /\ Len(result) = IF rng_last > rng_first THEN rng_last - rng_first ELSE 0
        /\ \A i \in DOMAIN result :
              /\ EmptyWeekNumber(rng_first + i - 1) => result[i] = None
              /\ FilledWeekNumber(rng_first + i - 1) =>
                    result[i] # None /\ result[i] \in files

\* C8: plot_week on a Week with an empty selection returns None, writes no
\* file, leaves the series and the week list unchanged and raises nothing,
\* so plot_week_range renders every remaining week of its range.
C8_EmptyWeekIsSkipped ==
    /\ [][PlotWeekOnEmptyWeek]_vars
    /\ [][RangeStepOnEmptyWeek]_vars
    /\ []RangeRenderedThroughout

\* plot_week_range returned a list in which a rendered Week follows an
\* empty one.
C8_Witness ==
    /\ pc = "rendered"
    /\ \E i \in DOMAIN result : \E j \in DOMAIN result :
          i < j /\ result[i] = None /\ result[j] # None

\* The row filter has run.
Filtered == pc \notin {"check_date", "check_glucose", "filter"}
\* pd.to_datetime has run.
Parsed == Filtered /\ pc # "to_datetime"
\* sort_values has run.
Sorted == Parsed /\ pc # "sort"
\* convert_glucose_data has run.
Converted == Constructed \/ pc = "mkdir"

DateMissing(r) == IF Parsed THEN r[DateColumn] = NaT ELSE r[DateColumn] = NA
GlucoseMissing(r) == IF Converted THEN r[GlucoseColumn] = NaN ELSE r[GlucoseColumn] = NA

\* C9: from the row filter on the series has no row with a missing
\* timestamp or glucose value (so none reaches the conversion to numbers)
\* and no more rows than the raw input; from the sort on it is ascending
\* by timestamp.
C9_CleanedSeries ==
    /\ Len(data) <= Len(raw)
    /\ Filtered =>
          \A i \in DOMAIN data : ~DateMissing(data[i]) /\ ~GlucoseMissing(data[i])
    /\ Sorted =>
          \A i \in DOMAIN data : \A j \in DOMAIN data :
              i < j => data[i][DateColumn] <= data[j][DateColumn]

\* A constructed CGV whose raw log had a row with a missing cell and two
\* complete rows out of order.
C9_Witness ==
    /\ pc = "ready"
    /\ Len(data) < Len(raw)
    /\ \E i \in DOMAIN raw : \E j \in DOMAIN raw :
          /\ i < j
          /\ raw[i][DateColumn] # NA /\ raw[i][GlucoseColumn] # NA
          /\ raw[j][DateColumn] # NA /\ raw[j][GlucoseColumn] # NA
          /\ to_datetime(raw[i][DateColumn]) > to_datetime(raw[j][DateColumn])

\* C10 as stated: whatever the segment length, every iteration of the loop
\* of segmenting_time_period moves the boundary strictly forward and emits
\* one Week, and the loop ends.
C10_TerminatesForEveryLength ==
    /\ [][SegStep =>
            (first_week_day' > first_week_day /\ Len(seg_weeks') = Len(seg_weeks) + 1)]_vars
    /\ (pc = "seg_loop") ~> (pc # "seg_loop")

\* C10 amended: for a segment length of at least one day the loop ends;
\* every iteration moves the boundary strictly forward and emits one Week,
\* and the loop is left only with the boundary at or past the maximum date.
C10_TerminatesForPositiveLength ==
    /\ (pc = "seg_loop" /\ days_per_segment >= 1) ~> (pc # "seg_loop")
    /\ [][(SegStep /\ days_per_segment >= 1) =>
            (first_week_day' > first_week_day /\ Len(seg_weeks') = Len(seg_weeks) + 1)]_vars
    /\ [][(SegReturn /\ last_day # NaT) => first_week_day >= last_day]_vars
    /\ [](pc = "seg_loop" => Len(seg_weeks) = week)

\* segmenting_time_period(3) returned a list of two Weeks or more.
C10_Witness ==
    /\ pc = "ready"
    /\ caller = "user"
    /\ days_per_segment = 3
    /\ Len(seg_weeks) >= 2

====
